---- MODULE Spec2Model ----
(***************************************************************************)
(* A model of save_podcasts.py (SpotifyOldestEpisodeManager, its retry     *)
(* decorator and its paginated fetcher) and of the remote service it       *)
(* talks to.                                                               *)
(*                                                                         *)
(* Python values are modelled as records tagged by the field py:           *)
(*   None                 [py |-> "None"]                                  *)
(*   a date string        [py |-> "str", parts |-> the '-'-separated       *)
(*                         fields of the string, each a string]            *)
(*   a dict               a record whose DOMAIN is the dict's key set      *)
(* Log lines and the name fields (episode_name, show_name), which only     *)
(* feed log lines, are left out.                                           *)
(***************************************************************************)
EXTENDS Integers, Sequences, FiniteSets, TLC

VARIABLES
    pc,                 \* the statement main (or the harness) is at
    run,                \* number of the current run of main
    saved,              \* remote: the user's saved-episode listing (uris)
    played,             \* remote: uris whose resume point is fully played
    followed,           \* remote: the followed-show listing (show ids)
    req,                \* the retry wrapper's frame of the call in flight
    gens,               \* the live _paginate_request generators, innermost first
    last_gen,           \* the generator that ended last, as it ended
    already_saved_uris, \* get_already_saved_episode_uris: uris / its result
    oldest_episodes,    \* find_oldest_unfinished_episode_per_podcast: the list
    valid_episodes,     \* _find_oldest_unfinished_episode_in_show: the list
    oldest_episode,     \* what _find_oldest_unfinished_episode_in_show returned last
    show_id,            \* the show being processed
    counts,             \* removed_count, processed_count, show_count, success_count, i
    add_log,            \* every add request the remote accepted or refused (uri lists)
    delete_log,         \* every delete request the remote accepted or refused
    request_count,      \* _rate_limit_control's counter
    faults_left,        \* attempts the environment may still fail
    results,            \* eliminar_todos_los_podcasts: the page it holds
    results_i           \* ... and the items of it that its for loop has taken

vars == <<pc, run, saved, played, followed, req, gens, last_gen,
          already_saved_uris, oldest_episodes, valid_episodes, oldest_episode,
          show_id, counts, add_log, delete_log, request_count, faults_left,
          results, results_i>>

---------------------------------------------------------------------------
(* Bounds of the model *)

\* Page size of every listing request.  The program uses 50; the model
\* keeps the pagination logic and shrinks the page.
DEFAULT_LIMIT == 2
\* Consecutive runs of main.
MaxRuns == 2
\* Failed attempts of remote calls in one behaviour.
MaxFailures == 2
\* Longest first page of episodes handed to the selection (SpecSort).
MaxListLen == 2
\* Largest max_retries the retry harness is configured with (SpecRetry).
MaxRetriesBound == 3

---------------------------------------------------------------------------
(* Python values *)

PyNone == [py |-> "None"]
PyStr(parts) == [py |-> "str", parts |-> parts]
PyDict(fully_played) == [py |-> "dict", fully_played |-> fully_played]

Return(v) == [raised |-> "no", value |-> v]
Raise(e) == [raised |-> e, value |-> PyNone]

\* int(): the integer a field of a date string spells; a field outside the
\* domain (empty, or not a numeral) makes int() raise ValueError.
IntOf == ("1" :> 1) @@ ("2" :> 2) @@ ("3" :> 3) @@ ("01" :> 1) @@ ("03" :> 3)
         @@ ("05" :> 5) @@ ("2019" :> 2019) @@ ("2020" :> 2020) @@ ("2021" :> 2021)

SENTINEL == <<9999, 12, 31>>

\* EpisodeData.get_sort_key
get_sort_key(self) ==
    IF self.release_date.py = "None"
    THEN Raise("AttributeError")          \* None.split: not caught by the except
    ELSE LET toks == self.release_date.parts IN
         IF \E i \in 1..Len(toks) : toks[i] \notin DOMAIN IntOf
         THEN Return(SENTINEL)            \* ValueError
         ELSE LET date_parts == [i \in 1..Len(toks) |-> IntOf[toks[i]]] IN
              IF self.release_date_precision = "year"
              THEN Return(<<date_parts[1], 1, 1>>)
              ELSE IF self.release_date_precision = "month"
              THEN IF Len(date_parts) < 2
                   THEN Return(SENTINEL)  \* IndexError
                   ELSE Return(<<date_parts[1], date_parts[2], 1>>)
              ELSE Return(date_parts)

\* Python's < on tuples of ints: lexicographic, a proper prefix is smaller.
RECURSIVE tuple_lt(_, _)
tuple_lt(a, b) ==
    IF b = <<>> THEN FALSE
    ELSE IF a = <<>> THEN TRUE
    ELSE IF Head(a) = Head(b) THEN tuple_lt(Tail(a), Tail(b))
    ELSE Head(a) < Head(b)

\* One step of list.sort(key=...): x goes after every element whose key is
\* not greater (the sort is stable).
RECURSIVE sort_insert(_, _)
sort_insert(x, s) ==
    IF s = <<>> THEN <<x>>
    ELSE IF tuple_lt(get_sort_key(x).value, get_sort_key(Head(s)).value)
    THEN <<x>> \o s
    ELSE <<Head(s)>> \o sort_insert(x, Tail(s))

\* A sort that leaves the list as the listing gave it.
sort_by_key_unsorted(s) == s

RECURSIVE sort_by_key(_)
sort_by_key(s) ==
    IF s = <<>> THEN <<>>
    ELSE sort_insert(s[Len(s)], sort_by_key(SubSeq(s, 1, Len(s) - 1)))

\* valid_episodes.sort(key=lambda ep: ep.get_sort_key()); valid_episodes[0]
\* (the keys are computed first: one that raises aborts the sort)
oldest_of(valid) ==
    IF \E i \in 1..Len(valid) : get_sort_key(valid[i]).raised # "no"
    THEN Raise("AttributeError")
    ELSE Return(sort_by_key(valid)[1])

\* A validity test that looks at neither the resume point nor the paywall flag.
_is_episode_valid_for_saving_any_state(episode, saved_uris) ==
    IF ~(/\ episode # PyNone
         /\ "uri" \in DOMAIN episode
         /\ "release_date" \in DOMAIN episode
         /\ "id" \in DOMAIN episode)
    THEN Return(FALSE)
    ELSE Return(episode.uri \notin saved_uris)

\* SpotifyOldestEpisodeManager._is_episode_valid_for_saving
_is_episode_valid_for_saving(episode, saved_uris) ==
    IF ~(/\ episode # PyNone
         /\ "uri" \in DOMAIN episode
         /\ "release_date" \in DOMAIN episode
         /\ "id" \in DOMAIN episode)
    THEN Return(FALSE)
    ELSE IF episode.uri \in saved_uris
    THEN Return(FALSE)
    ELSE IF "resume_point" \in DOMAIN episode /\ episode.resume_point.py = "None"
    THEN Raise("AttributeError")          \* None.get
    ELSE IF "resume_point" \in DOMAIN episode /\ episode.resume_point.fully_played
    THEN Return(FALSE)
    ELSE IF "is_paywall_content" \in DOMAIN episode /\ episode.is_paywall_content
    THEN Return(FALSE)
    ELSE Return(TRUE)

\* EpisodeData(...) as _find_oldest_unfinished_episode_in_show builds it
EpisodeData(episode, show) ==
    [uri |-> episode.uri,
     release_date |-> episode.release_date,
     release_date_precision |->
         IF "release_date_precision" \in DOMAIN episode
         THEN episode.release_date_precision ELSE "day",
     episode_id |-> episode.id,
     show_id |-> show]

---------------------------------------------------------------------------
(* The remote service *)

Shows == {"s1", "s2"}

\* The episodes of the shows the user may follow, newest first, without the
\* resume point (the user's playback state, kept in played); e5 is an
\* episode of a show the user does not follow.
AllUris == <<"e1", "e2", "e3", "e4">>

ShowOf == ("e1" :> "s1") @@ ("e2" :> "s1") @@ ("e3" :> "s1") @@ ("e4" :> "s2")
          @@ ("e5" :> "s3")

Metadata ==
    ("e1" :> [uri |-> "e1", id |-> "e1", release_date |-> PyStr(<<"2021">>),
              release_date_precision |-> "year", is_paywall_content |-> FALSE])
    @@
    ("e2" :> [uri |-> "e2", id |-> "e2", release_date |-> PyStr(<<"2020", "05">>),
              release_date_precision |-> "month", is_paywall_content |-> FALSE])
    @@
    ("e3" :> [uri |-> "e3", id |-> "e3", release_date |-> PyStr(<<"2019", "05", "03">>),
              release_date_precision |-> "day", is_paywall_content |-> TRUE])
    @@
    ("e4" :> [uri |-> "e4", id |-> "e4", release_date |-> PyStr(<<"2020", "01", "01">>),
              release_date_precision |-> "day", is_paywall_content |-> FALSE])
    @@
    ("e5" :> [uri |-> "e5", id |-> "e5", release_date |-> PyStr(<<"2021", "03", "01">>),
              release_date_precision |-> "day", is_paywall_content |-> FALSE])

\* An episode object as the remote serves it to this user.
EpisodeObject(u) == Metadata[u] @@ [resume_point |-> PyDict(u \in played)]

InShow(s) == [u \in DOMAIN ShowOf |-> ShowOf[u] = s]
UrisOfShow(s) == LET Test(u) == InShow(s)[u] IN SelectSeq(AllUris, Test)

\* An item of the saved-episode listing: the episode object of a known URI,
\* or, for anything else, an episode object that carries no uri.
SavedRecord(u) ==
    IF u \in DOMAIN Metadata THEN [episode |-> EpisodeObject(u)]
    ELSE [episode |-> [id |-> u]]

\* An item of the followed-show listing: the show object of a show id, or,
\* for anything else, a show object that carries no id.
ShowRecord(f) == IF f \in Shows THEN [show |-> [id |-> f]] ELSE [show |-> [name |-> f]]

\* A remote that lists a show to a user who follows none.
Listing_suggests_show(l) ==
    IF l = "saved" THEN [i \in 1..Len(saved) |-> SavedRecord(saved[i])]
    ELSE IF l = "shows"
    THEN IF followed = <<>> THEN <<ShowRecord("s1")>>
         ELSE [i \in 1..Len(followed) |-> ShowRecord(followed[i])]
    ELSE [i \in 1..Len(UrisOfShow(l)) |-> EpisodeObject(UrisOfShow(l)[i])]

\* The items of a listing of the remote, in the remote's order.
\*   "saved"  current_user_saved_episodes   "shows"  current_user_saved_shows
\*   a show id: show_episodes of that show
Listing(l) ==
    IF l = "saved" THEN [i \in 1..Len(saved) |-> SavedRecord(saved[i])]
    ELSE IF l = "shows" THEN [i \in 1..Len(followed) |-> ShowRecord(followed[i])]
    ELSE [i \in 1..Len(UrisOfShow(l)) |-> EpisodeObject(UrisOfShow(l)[i])]

Min(a, b) == IF a < b THEN a ELSE b

Url(l, offset) == [py |-> "url", listing |-> l, offset |-> offset]

\* A paging object: the items from offset on, at most limit of them, and the
\* url of the page after it (None on the last page).
Page(l, offset, limit) ==
    LET all == Listing(l) IN
    [items |-> SubSeq(all, offset + 1, Min(offset + limit, Len(all))),
     next |-> IF offset + limit < Len(all) THEN Url(l, offset + limit) ELSE PyNone]

Remove(seq, u) == LET Keep(x) == x # u IN SelectSeq(seq, Keep)
InSeq(seq, u) == \E i \in 1..Len(seq) : seq[i] = u

\* The library after current_user_saved_episodes_add([u]): a saved episode
\* stays where it is, a new one is listed first.
LibraryAdd(lib, u) == IF InSeq(lib, u) THEN lib ELSE <<u>> \o lib
\* The library after current_user_saved_episodes_delete([u]).
LibraryDelete(lib, u) == Remove(lib, u)

---------------------------------------------------------------------------
(* Remote calls *)

ListingCall(func, l) == [func |-> func, listing |-> l, offset |-> 0, uri |-> ""]
NextCall(url) == [func |-> "next", listing |-> url.listing, offset |-> url.offset, uri |-> ""]
LibraryCall(func, u) == [func |-> func, listing |-> "saved", offset |-> 0, uri |-> u]
NoCall == [func |-> "", listing |-> "", offset |-> 0, uri |-> ""]

\* What a call that the remote serves returns.  sp.next(current) fetches
\* the url in current['next'], which carries the offset and the limit.
Response(call) ==
    IF call.func \in {"current_user_saved_episodes", "current_user_saved_shows",
                      "show_episodes", "next"}
    THEN Page(call.listing, call.offset, DEFAULT_LIMIT)
    ELSE PyNone

\* The library after a call that the remote serves.
LibraryAfter(call) ==
    IF call.func = "current_user_saved_episodes_add" THEN LibraryAdd(saved, call.uri)
    ELSE IF call.func = "current_user_saved_episodes_delete" THEN LibraryDelete(saved, call.uri)
    ELSE saved

\* What an attempt can raise: the transport's timeout and connection error,
\* a service error of the rate limiter (429), any other service error
\* (e.g. 404), and anything else.
Errors == {"ReadTimeout", "ConnectionError", "SpotifyException429",
           "SpotifyException404", "Exception"}

\* except (ReadTimeout, ConnectionError, SpotifyException)
wrapper_catches(e) ==
    e \in {"ReadTimeout", "ConnectionError", "SpotifyException429", "SpotifyException404"}

---------------------------------------------------------------------------
(* retry_on_timeout: the wrapper's frame of one call *)

IdleFrame ==
    [status |-> "idle", call |-> NoCall, max_retries |-> 0, delay |-> 0, backoff |-> 0,
     retries |-> 0, current_delay |-> 0, sleeps |-> <<>>, attempts |-> 0,
     result |-> PyNone, exc |-> "no"]

\* wrapper(*args): retries = 0; current_delay = delay; while retries < max_retries
wrapper_enter(call, max_retries, delay, backoff) ==
    [status |-> IF 0 < max_retries THEN "running" ELSE "returned",
     call |-> call, max_retries |-> max_retries, delay |-> delay, backoff |-> backoff,
     retries |-> 0, current_delay |-> delay, sleeps |-> <<>>, attempts |-> 0,
     result |-> PyNone, exc |-> "no"]

\* try: return func(*args, **kwargs)
wrapper_return(r, value) ==
    [r EXCEPT !.status = "returned", !.result = value, !.attempts = @ + 1]

\* A wrapper that raises at the first caught exception.
wrapper_except_no_retry(r, e) ==
    [r EXCEPT !.status = "raised", !.exc = e, !.attempts = @ + 1, !.retries = @ + 1]

\* A wrapper that sleeps once more before it gives up (> for >=).
wrapper_except_late_raise(r, e) ==
    IF ~wrapper_catches(e)
    THEN [r EXCEPT !.status = "raised", !.exc = e, !.attempts = @ + 1]
    ELSE IF r.retries + 1 > r.max_retries
    THEN [r EXCEPT !.status = "raised", !.exc = e, !.attempts = @ + 1,
                   !.retries = @ + 1]
    ELSE [r EXCEPT !.attempts = @ + 1, !.retries = @ + 1,
                   !.sleeps = Append(@, r.current_delay),
                   !.current_delay = @ * r.backoff]

\* A wrapper that never gives up on a caught exception.
wrapper_except_forever(r, e) ==
    IF ~wrapper_catches(e)
    THEN [r EXCEPT !.status = "raised", !.exc = e, !.attempts = @ + 1]
    ELSE [r EXCEPT !.attempts = @ + 1, !.retries = @ + 1,
                   !.sleeps = Append(@, r.current_delay),
                   !.current_delay = @ * r.backoff]

\* except (ReadTimeout, ConnectionError, SpotifyException): retries += 1;
\* raise at max_retries, else sleep(current_delay); current_delay *= backoff.
\* Any other exception leaves the wrapper as it is raised.
wrapper_except(r, e) ==
    IF ~wrapper_catches(e)
    THEN [r EXCEPT !.status = "raised", !.exc = e, !.attempts = @ + 1]
    ELSE IF r.retries + 1 >= r.max_retries
    THEN [r EXCEPT !.status = "raised", !.exc = e, !.attempts = @ + 1,
                   !.retries = @ + 1]
    ELSE [r EXCEPT !.attempts = @ + 1, !.retries = @ + 1,
                   !.sleeps = Append(@, r.current_delay),
                   !.current_delay = @ * r.backoff]

\* @retry_on_timeout(max_retries=3, delay=2, backoff=2) of _safe_request
SAFE_MAX_RETRIES == 3
SAFE_DELAY == 2
SAFE_BACKOFF == 2

\* self._safe_request(request_func, ...): enters the wrapper
_safe_request(call) == wrapper_enter(call, SAFE_MAX_RETRIES, SAFE_DELAY, SAFE_BACKOFF)

Finished == req.status \in {"returned", "raised"}

---------------------------------------------------------------------------
(* _paginate_request: a generator's frame *)

NoGen ==
    [current |-> PyNone, idx |-> 0, done |-> TRUE, yielded |-> <<>>, pages |-> 0,
     broke |-> "no", recovered |-> 0]

\* _paginate_request(initial_request): current = initial_request.  The
\* fields yielded, pages, broke and recovered record the generator's
\* history: the items yielded, the pages obtained, the exception of the
\* page request that broke the loop ("no" without one), and the most
\* failed attempts a served page request had.
_paginate_request(initial_request) ==
    [current |-> initial_request, idx |-> 0, done |-> FALSE, yielded |-> <<>>,
     pages |-> 1, broke |-> "no", recovered |-> 0]

\* Where next(generator) leads: the next item of the page, the request of
\* the following page, or the end of the sequence.
Poll(g) ==
    IF g.done \/ g.current = PyNone THEN "end"
    ELSE IF g.current.items = <<>> THEN "end"
    ELSE IF g.idx < Len(g.current.items) THEN "yield"
    ELSE IF g.current.next # PyNone THEN "fetch"
    ELSE "end"

\* yield from current['items'], one item
Item(g) == g.current.items[g.idx + 1]
Yielded(g) == [g EXCEPT !.idx = @ + 1, !.yielded = Append(@, Item(g))]

\* A generator that asks for the page again after the request raised.
next_page_ignores_raise(g, r) ==
    IF r.status = "raised" THEN [g EXCEPT !.broke = r.exc]
    ELSE [g EXCEPT !.current = r.result, !.idx = 0, !.pages = @ + 1,
                   !.recovered = IF r.retries > @ THEN r.retries ELSE @]

\* current = self._safe_request(next_func, current); None or an exception
\* breaks the loop
next_page(g, r) ==
    IF r.status = "raised" THEN [g EXCEPT !.done = TRUE, !.broke = r.exc]
    ELSE IF r.result = PyNone THEN [g EXCEPT !.done = TRUE]
    ELSE [g EXCEPT !.current = r.result, !.idx = 0, !.pages = @ + 1,
                   !.recovered = IF r.retries > @ THEN r.retries ELSE @]

---------------------------------------------------------------------------
(* The state of a fresh process *)

NoCounts ==
    [removed_count |-> 0, processed_count |-> 0, show_count |-> 0,
     success_count |-> 0, i |-> 0]

Fresh ==
    /\ req = IdleFrame
    /\ gens = <<>>
    /\ last_gen = NoGen
    /\ already_saved_uris = {}
    /\ oldest_episodes = <<>>
    /\ valid_episodes = <<>>
    /\ oldest_episode = PyNone
    /\ show_id = ""
    /\ counts = NoCounts
    /\ add_log = <<>>
    /\ delete_log = <<>>
    /\ request_count = 0
    /\ results = PyNone
    /\ results_i = 0

script == <<results, results_i>>
remote == <<saved, played, followed>>
locals == <<already_saved_uris, oldest_episodes, valid_episodes, oldest_episode,
            show_id, counts>>
logs == <<add_log, delete_log>>

Push(g) == <<g>> \o gens
ReplaceTop(g) == <<g>> \o Tail(gens)
Polling(at) == pc = at /\ req.status = "idle" /\ gens # <<>>

---------------------------------------------------------------------------
(* One attempt of the call in flight: wrapper -> _safe_request -> request_func *)

\* _rate_limit_control counts the attempt; the remote serves it.
SafeRequestReturns ==
    /\ req.status = "running"
    /\ req' = wrapper_return(req, Response(req.call))
    /\ saved' = LibraryAfter(req.call)
    /\ request_count' = request_count + 1
    /\ UNCHANGED <<pc, run, script, played, followed, gens, last_gen, locals, logs, faults_left>>

\* _rate_limit_control counts the attempt; the request raises.
SafeRequestRaises ==
    /\ req.status = "running"
    /\ faults_left > 0
    /\ \E e \in Errors : req' = wrapper_except(req, e)
    /\ request_count' = request_count + 1
    /\ faults_left' = faults_left - 1
    /\ UNCHANGED <<pc, run, script, remote, gens, last_gen, locals, logs>>

---------------------------------------------------------------------------
(* _paginate_request between two items *)

LoopPcs == {"clean_loop", "lookup_loop", "shows_loop", "eps_loop"}

\* if current.get('next'): current = self._safe_request(next_func, current)
PaginateFetch ==
    /\ pc \in LoopPcs /\ req.status = "idle" /\ gens # <<>>
    /\ Poll(Head(gens)) = "fetch"
    /\ req' = _safe_request(NextCall(Head(gens).current.next))
    /\ UNCHANGED <<pc, run, script, remote, gens, last_gen, locals, logs, request_count, faults_left>>

\* the page request returned or raised
PaginateResume ==
    /\ pc \in LoopPcs /\ Finished /\ req.call.func = "next"
    /\ gens' = ReplaceTop(next_page(Head(gens), req))
    /\ req' = IdleFrame
    /\ UNCHANGED <<pc, run, script, remote, last_gen, locals, logs, request_count, faults_left>>

---------------------------------------------------------------------------
(* main and clean_finished_episodes *)

\* main(): manager = SpotifyOldestEpisodeManager(); clean_finished_episodes()
\* requests the first page of the saved episodes
Main ==
    /\ pc = "main"
    /\ pc' = "clean_first"
    /\ req' = _safe_request(ListingCall("current_user_saved_episodes", "saved"))
    /\ request_count' = 0
    /\ UNCHANGED <<run, script, remote, gens, last_gen, locals, logs, faults_left>>

CleanFirstPage ==
    /\ pc = "clean_first" /\ Finished
    /\ req' = IdleFrame
    /\ IF req.status = "returned"
       THEN /\ gens' = Push(_paginate_request(req.result))
            /\ counts' = [counts EXCEPT !.removed_count = 0, !.processed_count = 0]
            /\ pc' = "clean_loop"
       ELSE /\ pc' = "save"          \* except Exception: logged
            /\ UNCHANGED <<gens, counts>>
    /\ UNCHANGED <<run, script, remote, last_gen, already_saved_uris, oldest_episodes,
                   valid_episodes, oldest_episode, show_id, logs, request_count, faults_left>>

\* A cleaning that deletes every saved episode it sees.
clean_decision_deletes_all(item) ==
    IF item = PyNone THEN "continue"
    ELSE IF "episode" \notin DOMAIN item THEN "continue"
    ELSE IF "uri" \notin DOMAIN item.episode THEN "KeyError"
    ELSE "delete"

\* the body of the loop over the saved episodes, up to the delete request
clean_decision(item) ==
    IF item = PyNone THEN "continue"
    ELSE IF "episode" \notin DOMAIN item THEN "continue"
    ELSE IF "uri" \notin DOMAIN item.episode THEN "KeyError"
    ELSE IF "resume_point" \notin DOMAIN item.episode THEN "keep"
    ELSE IF item.episode.resume_point.py = "None" THEN "AttributeError"
    ELSE IF item.episode.resume_point.fully_played THEN "delete"
    ELSE "keep"

CleanItem ==
    /\ Polling("clean_loop") /\ Poll(Head(gens)) = "yield"
    /\ LET item == Item(Head(gens))
           what == clean_decision(item)
       IN  /\ counts' = IF what = "continue" THEN counts
                        ELSE [counts EXCEPT !.processed_count = @ + 1]
           /\ IF what = "delete"
              THEN /\ req' = _safe_request(LibraryCall(
                                "current_user_saved_episodes_delete", item.episode.uri))
                   /\ delete_log' = Append(delete_log, item.episode.uri)
                   /\ gens' = ReplaceTop(Yielded(Head(gens)))
                   /\ pc' = "clean_delete"
              ELSE IF what \in {"KeyError", "AttributeError"}
              THEN /\ gens' = Tail(gens)      \* except Exception: logged
                   /\ pc' = "save"
                   /\ UNCHANGED <<req, delete_log>>
              ELSE /\ gens' = ReplaceTop(Yielded(Head(gens)))
                   /\ UNCHANGED <<req, delete_log, pc>>
    /\ UNCHANGED <<run, script, remote, last_gen, already_saved_uris, oldest_episodes,
                   valid_episodes, oldest_episode, show_id, add_log, request_count,
                   faults_left>>

\* the delete request returned (removed_count += 1) or raised (logged)
CleanDeleted ==
    /\ pc = "clean_delete" /\ Finished
    /\ req' = IdleFrame
    /\ counts' = IF req.status = "returned"
                 THEN [counts EXCEPT !.removed_count = @ + 1] ELSE counts
    /\ pc' = "clean_loop"
    /\ UNCHANGED <<run, script, remote, gens, last_gen, already_saved_uris, oldest_episodes,
                   valid_episodes, oldest_episode, show_id, logs, request_count, faults_left>>

CleanEnd ==
    /\ Polling("clean_loop") /\ Poll(Head(gens)) = "end"
    /\ last_gen' = Head(gens)
    /\ gens' = Tail(gens)
    /\ pc' = "save"
    /\ UNCHANGED <<run, script, remote, req, locals, logs, request_count, faults_left>>

---------------------------------------------------------------------------
(* save_oldest_episodes_to_library -> find_oldest_unfinished_episode_per_podcast *)
(* -> get_already_saved_episode_uris                                            *)

\* save_oldest_episodes_to_library() calls find_oldest_..., which sets
\* oldest_episodes = [] and calls get_already_saved_episode_uris(): uris =
\* set() and the request of the first page of the saved episodes
Save ==
    /\ pc = "save"
    /\ oldest_episodes' = <<>>
    /\ already_saved_uris' = {}
    /\ req' = _safe_request(ListingCall("current_user_saved_episodes", "saved"))
    /\ pc' = "lookup_first"
    /\ UNCHANGED <<run, script, remote, gens, last_gen, valid_episodes, oldest_episode,
                   show_id, counts, logs, request_count, faults_left>>

LookupFirstPage ==
    /\ pc = "lookup_first" /\ Finished
    /\ req' = IdleFrame
    /\ IF req.status = "returned"
       THEN /\ gens' = Push(_paginate_request(req.result))
            /\ pc' = "lookup_loop"
       ELSE /\ pc' = "shows"         \* except Exception: logged; return uris
            /\ UNCHANGED gens
    /\ UNCHANGED <<run, script, remote, last_gen, locals, logs, request_count, faults_left>>

\* A lookup that collects nothing.
lookup_add_nothing(uris, item) == uris

\* if item and 'episode' in item and 'uri' in item['episode']: uris.add(...)
lookup_add(uris, item) ==
    IF item = PyNone THEN uris
    ELSE IF "episode" \notin DOMAIN item THEN uris
    ELSE IF "uri" \notin DOMAIN item.episode THEN uris
    ELSE uris \cup {item.episode.uri}

LookupItem ==
    /\ Polling("lookup_loop") /\ Poll(Head(gens)) = "yield"
    /\ already_saved_uris' = lookup_add(already_saved_uris, Item(Head(gens)))
    /\ gens' = ReplaceTop(Yielded(Head(gens)))
    /\ UNCHANGED <<pc, run, script, remote, req, last_gen, oldest_episodes, valid_episodes,
                   oldest_episode, show_id, counts, logs, request_count, faults_left>>

\* return uris
LookupEnd ==
    /\ Polling("lookup_loop") /\ Poll(Head(gens)) = "end"
    /\ last_gen' = Head(gens)
    /\ gens' = Tail(gens)
    /\ pc' = "shows"
    /\ UNCHANGED <<run, script, remote, req, locals, logs, request_count, faults_left>>

\* shows = self._safe_request(self.sp.current_user_saved_shows, limit=...)
ShowsCall ==
    /\ pc = "shows"
    /\ req' = _safe_request(ListingCall("current_user_saved_shows", "shows"))
    /\ pc' = "shows_first"
    /\ UNCHANGED <<run, script, remote, gens, last_gen, locals, logs, request_count, faults_left>>

\* a raised request: except Exception: return []; then
\* save_oldest_episodes_to_library returns at 'if not oldest_episodes'
ShowsFirstPage ==
    /\ pc = "shows_first" /\ Finished
    /\ req' = IdleFrame
    /\ IF req.status = "returned"
       THEN /\ gens' = Push(_paginate_request(req.result))
            /\ counts' = [counts EXCEPT !.show_count = 0]
            /\ pc' = "shows_loop"
            /\ UNCHANGED oldest_episodes
       ELSE /\ oldest_episodes' = <<>>
            /\ pc' = "done"
            /\ UNCHANGED <<gens, counts>>
    /\ UNCHANGED <<run, script, remote, last_gen, already_saved_uris, valid_episodes,
                   oldest_episode, show_id, logs, request_count, faults_left>>

\* the body of the loop over the followed shows, up to the episode request
shows_decision(show) ==
    IF show = PyNone THEN "continue"
    ELSE IF "show" \notin DOMAIN show THEN "continue"
    ELSE IF "id" \notin DOMAIN show.show THEN "KeyError"
    ELSE "process"

ShowsItem ==
    /\ Polling("shows_loop") /\ Poll(Head(gens)) = "yield"
    /\ LET show == Item(Head(gens))
           what == shows_decision(show)
       IN  IF what = "process"
           THEN /\ counts' = [counts EXCEPT !.show_count = @ + 1]
                /\ show_id' = show.show.id
                /\ req' = _safe_request(ListingCall("show_episodes", show.show.id))
                /\ gens' = ReplaceTop(Yielded(Head(gens)))
                /\ pc' = "eps_first"
                /\ UNCHANGED oldest_episodes
           ELSE IF what = "KeyError"
           THEN /\ counts' = [counts EXCEPT !.show_count = @ + 1]
                /\ oldest_episodes' = <<>>   \* outer except Exception: return []
                /\ gens' = Tail(gens)
                /\ pc' = "done"
                /\ UNCHANGED <<show_id, req>>
           ELSE /\ gens' = ReplaceTop(Yielded(Head(gens)))
                /\ UNCHANGED <<counts, show_id, req, pc, oldest_episodes>>
    /\ UNCHANGED <<run, script, remote, last_gen, already_saved_uris, valid_episodes,
                   oldest_episode, logs, request_count, faults_left>>

\* the loop over the shows ended: return oldest_episodes; then the list is
\* empty (save_oldest_episodes_to_library returns) or the add loop starts
ShowsEnd ==
    /\ Polling("shows_loop") /\ Poll(Head(gens)) = "end"
    /\ last_gen' = Head(gens)
    /\ gens' = Tail(gens)
    /\ counts' = [counts EXCEPT !.success_count = 0, !.i = 0]
    /\ pc' = IF oldest_episodes = <<>> THEN "done" ELSE "add_loop"
    /\ UNCHANGED <<run, script, remote, req, already_saved_uris, oldest_episodes,
                   valid_episodes, oldest_episode, show_id, logs, request_count,
                   faults_left>>

---------------------------------------------------------------------------
(* _find_oldest_unfinished_episode_in_show *)

EpisodesFirstPage ==
    /\ pc = "eps_first" /\ Finished
    /\ req' = IdleFrame
    /\ IF req.status = "returned"
       THEN /\ gens' = Push(_paginate_request(req.result))
            /\ valid_episodes' = <<>>
            /\ pc' = "eps_loop"
            /\ UNCHANGED oldest_episode
       ELSE /\ oldest_episode' = PyNone   \* except Exception: return None
            /\ pc' = "shows_loop"
            /\ UNCHANGED <<gens, valid_episodes>>
    /\ UNCHANGED <<run, script, remote, last_gen, already_saved_uris, oldest_episodes,
                   show_id, counts, logs, request_count, faults_left>>

\* the body of the loop over the episodes of the show; an exception of the
\* validity test ends the function: except Exception: return None
EpisodesItem ==
    /\ Polling("eps_loop") /\ Poll(Head(gens)) = "yield"
    /\ LET episode == Item(Head(gens))
           valid == _is_episode_valid_for_saving(episode, already_saved_uris)
       IN  IF valid.raised # "no"
           THEN /\ oldest_episode' = PyNone
                /\ gens' = Tail(gens)
                /\ pc' = "shows_loop"
                /\ UNCHANGED valid_episodes
           ELSE /\ valid_episodes' = IF valid.value
                                     THEN Append(valid_episodes, EpisodeData(episode, show_id))
                                     ELSE valid_episodes
                /\ gens' = ReplaceTop(Yielded(Head(gens)))
                /\ UNCHANGED <<oldest_episode, pc>>
    /\ UNCHANGED <<run, script, remote, req, last_gen, already_saved_uris, oldest_episodes,
                   show_id, counts, logs, request_count, faults_left>>

\* after the loop: None without valid episodes, else the first of the sorted
\* list (None when the sort raises)
find_result(valid) ==
    IF valid = <<>> THEN PyNone
    ELSE IF oldest_of(valid).raised # "no" THEN PyNone
    ELSE oldest_of(valid).value

\* ... and back in find_oldest_unfinished_episode_per_podcast:
\* if oldest_episode: oldest_episodes.append(oldest_episode)
EpisodesEnd ==
    /\ Polling("eps_loop") /\ Poll(Head(gens)) = "end"
    /\ last_gen' = Head(gens)
    /\ gens' = Tail(gens)
    /\ oldest_episode' = find_result(valid_episodes)
    /\ oldest_episodes' = IF find_result(valid_episodes) # PyNone
                          THEN Append(oldest_episodes, find_result(valid_episodes))
                          ELSE oldest_episodes
    /\ pc' = "shows_loop"
    /\ UNCHANGED <<run, script, remote, req, already_saved_uris, valid_episodes, show_id,
                   counts, logs, request_count, faults_left>>

---------------------------------------------------------------------------
(* save_oldest_episodes_to_library: the add loop *)

\* self._safe_request(self.sp.current_user_saved_episodes_add, [episode.uri])
AddCall ==
    /\ pc = "add_loop" /\ counts.i < Len(oldest_episodes)
    /\ req' = _safe_request(LibraryCall("current_user_saved_episodes_add",
                                        oldest_episodes[counts.i + 1].uri))
    /\ add_log' = Append(add_log, oldest_episodes[counts.i + 1].uri)
    /\ pc' = "add_wait"
    /\ UNCHANGED <<run, script, remote, gens, last_gen, locals, delete_log, request_count,
                   faults_left>>

\* the add request returned (success_count += 1) or raised (logged)
AddDone ==
    /\ pc = "add_wait" /\ Finished
    /\ req' = IdleFrame
    /\ counts' = [counts EXCEPT !.i = @ + 1,
                                !.success_count = IF req.status = "returned"
                                                  THEN @ + 1 ELSE @]
    /\ pc' = "add_loop"
    /\ UNCHANGED <<run, script, remote, gens, last_gen, already_saved_uris, oldest_episodes,
                   valid_episodes, oldest_episode, show_id, logs, request_count,
                   faults_left>>

\* main logs its completion
AddEnd ==
    /\ pc = "add_loop" /\ counts.i = Len(oldest_episodes)
    /\ pc' = "done"
    /\ UNCHANGED <<run, script, remote, req, gens, last_gen, locals, logs, request_count,
                   faults_left>>

\* The script is run again: a new process, the remote as the last run left
\* it, the playback state unchanged.
NextRun ==
    /\ pc = "done" /\ run < MaxRuns
    /\ pc' = "main"
    /\ run' = run + 1
    /\ req' = IdleFrame
    /\ gens' = <<>>
    /\ last_gen' = NoGen
    /\ already_saved_uris' = {}
    /\ oldest_episodes' = <<>>
    /\ valid_episodes' = <<>>
    /\ oldest_episode' = PyNone
    /\ show_id' = ""
    /\ counts' = NoCounts
    /\ add_log' = <<>>
    /\ delete_log' = <<>>
    /\ request_count' = 0
    /\ UNCHANGED <<remote, faults_left, script>>

---------------------------------------------------------------------------
(* Runs of main against every remote within the bounds *)

\* The saved library lists each episode once, in any selection of the
\* remote's episodes; the followed listing is any listing of shows.
MaxFollowed == 2

RECURSIVE SubSeqs(_)
SubSeqs(s) ==
    IF s = <<>> THEN {<<>>}
    ELSE LET rest == SubSeqs(Tail(s)) IN rest \cup {<<Head(s)>> \o r : r \in rest}

Listings(S, n) == UNION {[1..k -> S] : k \in 0..n}

Init ==
    /\ pc = "main"
    /\ run = 1
    /\ saved \in SubSeqs(AllUris)
    /\ played \in SUBSET {AllUris[i] : i \in 1..Len(AllUris)}
    /\ followed \in Listings(Shows, MaxFollowed)
    /\ faults_left = MaxFailures
    /\ Fresh

Next ==
    \/ Main \/ CleanFirstPage \/ CleanItem \/ CleanDeleted \/ CleanEnd
    \/ Save \/ LookupFirstPage \/ LookupItem \/ LookupEnd
    \/ ShowsCall \/ ShowsFirstPage \/ ShowsItem \/ ShowsEnd
    \/ EpisodesFirstPage \/ EpisodesItem \/ EpisodesEnd
    \/ AddCall \/ AddDone \/ AddEnd
    \/ PaginateFetch \/ PaginateResume
    \/ SafeRequestReturns \/ SafeRequestRaises

Spec == Init /\ [][Next]_vars

---------------------------------------------------------------------------
(* Consecutive runs of main that no remote call fails, from a library that *)
(* holds no unfinished episode                                            *)

Range(seq) == {seq[i] : i \in 1..Len(seq)}

InitRuns ==
    /\ pc = "main"
    /\ run = 1
    /\ played \in SUBSET Range(AllUris)
    /\ saved \in {s \in SubSeqs(AllUris) : Range(s) \subseteq played}
    /\ followed \in Listings(Shows, MaxFollowed)
    /\ faults_left = 0
    /\ Fresh

NextRuns ==
    \/ Main \/ CleanFirstPage \/ CleanItem \/ CleanDeleted \/ CleanEnd
    \/ Save \/ LookupFirstPage \/ LookupItem \/ LookupEnd
    \/ ShowsCall \/ ShowsFirstPage \/ ShowsItem \/ ShowsEnd
    \/ EpisodesFirstPage \/ EpisodesItem \/ EpisodesEnd
    \/ AddCall \/ AddDone \/ AddEnd
    \/ PaginateFetch \/ PaginateResume
    \/ SafeRequestReturns
    \/ NextRun

SpecRuns == InitRuns /\ [][NextRuns]_vars

---------------------------------------------------------------------------
(* _paginate_request over the saved episodes, consumed by                  *)
(* get_already_saved_episode_uris; the first page is given, and the        *)
(* environment may fail as many attempts as one request makes              *)

InitPaginate ==
    /\ pc = "lookup_loop"
    /\ run = 1
    /\ played = {}
    /\ saved \in SubSeqs(AllUris \o <<"e5">>)
    /\ followed = <<>>
    /\ faults_left = SAFE_MAX_RETRIES
    /\ req = IdleFrame
    /\ gens = <<_paginate_request(Page("saved", 0, DEFAULT_LIMIT))>>
    /\ last_gen = NoGen
    /\ already_saved_uris = {}
    /\ oldest_episodes = <<>>
    /\ valid_episodes = <<>>
    /\ oldest_episode = PyNone
    /\ show_id = ""
    /\ counts = NoCounts
    /\ add_log = <<>>
    /\ delete_log = <<>>
    /\ request_count = 0
    /\ results = PyNone
    /\ results_i = 0

NextPaginate ==
    \/ LookupItem \/ LookupEnd
    \/ PaginateFetch \/ PaginateResume
    \/ SafeRequestReturns \/ SafeRequestRaises

SpecPaginate == InitPaginate /\ [][NextPaginate]_vars

---------------------------------------------------------------------------
(* One call through retry_on_timeout(max_retries, delay, backoff), for     *)
(* every configuration within the bounds                                   *)

Delays == {1, 2}
Backoffs == {1, 2, 3}

InitRetry ==
    /\ pc = "call"
    /\ run = 1
    /\ played = {}
    /\ saved \in SubSeqs(AllUris)
    /\ followed = <<>>
    /\ faults_left = MaxRetriesBound
    /\ \E m \in 1..MaxRetriesBound, d \in Delays, b \in Backoffs :
          req = wrapper_enter(ListingCall("current_user_saved_episodes", "saved"), m, d, b)
    /\ gens = <<>>
    /\ last_gen = NoGen
    /\ already_saved_uris = {}
    /\ oldest_episodes = <<>>
    /\ valid_episodes = <<>>
    /\ oldest_episode = PyNone
    /\ show_id = ""
    /\ counts = NoCounts
    /\ add_log = <<>>
    /\ delete_log = <<>>
    /\ request_count = 0
    /\ results = PyNone
    /\ results_i = 0

NextRetry == SafeRequestReturns \/ SafeRequestRaises

SpecRetry == InitRetry /\ [][NextRetry]_vars

---------------------------------------------------------------------------
(* _find_oldest_unfinished_episode_in_show on every first page of episode  *)
(* objects within the bounds (a single page: the listing has no next)      *)

Precisions == {"year", "month", "day"}
DateTokens == {"1", "2"}

\* Release dates: every string of one to three numeric fields, strings with
\* a field that is no numeral, and null.
Dates ==
    {PyStr(p) : p \in UNION {[1..n -> DateTokens] : n \in 1..3}}
    \cup {PyStr(<<"x">>), PyStr(<<"1", "x">>), PyNone}

Dated(date) ==
    [uri |-> "u1", id |-> "u1", release_date |-> date,
     resume_point |-> PyDict(FALSE), is_paywall_content |-> FALSE]

Without(dict, key) == [k \in DOMAIN dict \ {key} |-> dict[k]]

\* The oldest release date there is, on the episode objects that the
\* selection must leave out or that lack an optional key.
Oldest == Dated(PyStr(<<"1">>)) @@ [release_date_precision |-> "year"]

EpisodeInputs ==
    {Dated(d) @@ [release_date_precision |-> p] : d \in Dates, p \in Precisions}
    \cup {Dated(d) : d \in Dates}
    \cup {[Oldest EXCEPT !.uri = "u2"],
          [Oldest EXCEPT !.resume_point = PyDict(TRUE)],
          [Oldest EXCEPT !.resume_point = PyNone],
          [Oldest EXCEPT !.is_paywall_content = TRUE],
          Without(Oldest, "resume_point"),
          Without(Oldest, "is_paywall_content"),
          Without(Oldest, "uri"),
          Without(Oldest, "id"),
          Without(Oldest, "release_date"),
          PyNone}

InitSort ==
    /\ pc = "eps_loop"
    /\ run = 1
    /\ played = {}
    /\ saved = <<"u2">>
    /\ followed = <<"s1">>
    /\ faults_left = 0
    /\ req = IdleFrame
    /\ \E items \in Listings(EpisodeInputs, MaxListLen) :
          gens = <<_paginate_request([items |-> items, next |-> PyNone])>>
    /\ last_gen = NoGen
    /\ already_saved_uris = {"u2"}
    /\ oldest_episodes = <<>>
    /\ valid_episodes = <<>>
    /\ oldest_episode = PyNone
    /\ show_id = "s1"
    /\ counts = NoCounts
    /\ add_log = <<>>
    /\ delete_log = <<>>
    /\ request_count = 0
    /\ results = PyNone
    /\ results_i = 0

NextSort == EpisodesItem \/ EpisodesEnd

SpecSort == InitSort /\ [][NextSort]_vars

---------------------------------------------------------------------------
(* Properties of the selection (SpecSort) *)

\* a <= b in the order of the sort keys: a is a prefix of b, or a is
\* smaller at the first place where they differ
LexLeq(a, b) ==
    \/ Len(a) <= Len(b) /\ \A i \in 1..Len(a) : a[i] = b[i]
    \/ \E k \in 1..Min(Len(a), Len(b)) :
          /\ \A i \in 1..(k - 1) : a[i] = b[i]
          /\ a[k] < b[k]

Eligible(episode) ==
    LET valid == _is_episode_valid_for_saving(episode, already_saved_uris)
    IN  valid.raised = "no" /\ valid.value

KeyOf(episode) == get_sort_key(EpisodeData(episode, show_id)).value

\* the function returned, to the loop over the shows
Returned == pc = "shows_loop" /\ gens = <<>>

\* C1: the episode that _find_oldest_unfinished_episode_in_show returns has
\* a sort key less than or equal to the sort key of every eligible episode
\* of the list of episodes the listing returned for the show.
C1_OldestHasLeastKey ==
    (Returned /\ oldest_episode # PyNone) =>
        \A i \in 1..Len(last_gen.yielded) :
            Eligible(last_gen.yielded[i]) =>
                LexLeq(get_sort_key(oldest_episode).value, KeyOf(last_gen.yielded[i]))

\* C1 witness: two eligible episodes were listed, the second strictly older
\* than the first, and the second was returned.
C1_Witness ==
    /\ Returned
    /\ Len(last_gen.yielded) = 2
    /\ Eligible(last_gen.yielded[1]) /\ Eligible(last_gen.yielded[2])
    /\ oldest_episode = EpisodeData(last_gen.yielded[2], show_id)
    /\ ~LexLeq(KeyOf(last_gen.yielded[1]), KeyOf(last_gen.yielded[2]))

NeededParts(precision) ==
    IF precision = "year" THEN 1 ELSE IF precision = "month" THEN 2 ELSE 3

\* a release date that is a string of numerals with at least the parts its
\* precision announces
WellFormedDate(ep) ==
    /\ ep.release_date.py = "str"
    /\ \A i \in 1..Len(ep.release_date.parts) : ep.release_date.parts[i] \in DOMAIN IntOf
    /\ Len(ep.release_date.parts) >= NeededParts(ep.release_date_precision)

ClaimedKey(ep) ==
    IF ~WellFormedDate(ep) THEN SENTINEL
    ELSE LET n == [i \in 1..Len(ep.release_date.parts) |-> IntOf[ep.release_date.parts[i]]]
         IN  IF ep.release_date_precision = "year" THEN <<n[1], 1, 1>>
             ELSE IF ep.release_date_precision = "month" THEN <<n[1], n[2], 1>>
             ELSE <<n[1], n[2], n[3]>>

\* C7: get_sort_key always returns a (year, month, day) triple: (Y, 1, 1) for
\* precision 'year', (Y, M, 1) for 'month', (Y, M, D) for 'day', and the
\* sentinel (9999, 12, 31) for every missing, invalid or unparseable date,
\* a date with fewer parts than its precision announces included; hence an
\* episode with such a date is returned only when no eligible episode of
\* the show has a well-formed date.
C7_SortKeyIsClaimedTriple ==
    /\ \A i \in 1..Len(valid_episodes) :
          /\ get_sort_key(valid_episodes[i]).raised = "no"
          /\ get_sort_key(valid_episodes[i]).value = ClaimedKey(valid_episodes[i])
    /\ (Returned /\ oldest_episode # PyNone /\ ~WellFormedDate(oldest_episode)) =>
          \A i \in 1..Len(valid_episodes) : ~WellFormedDate(valid_episodes[i])

---------------------------------------------------------------------------
(* Properties of the retry wrapper (SpecRetry) *)

RECURSIVE Pow(_, _)
Pow(b, n) == IF n = 0 THEN 1 ELSE b * Pow(b, n - 1)

\* C10: a call that keeps failing with errors the wrapper catches is
\* attempted exactly max_retries times, the sleep after the k-th failed
\* attempt (k < max_retries) is delay * backoff^(k-1), no sleep follows the
\* last failed attempt, and the error is re-raised; when attempt k succeeds
\* its result is returned and no further attempt is made.
C10_RetrySchedule ==
    /\ \A k \in 1..Len(req.sleeps) : req.sleeps[k] = req.delay * Pow(req.backoff, k - 1)
    /\ req.status = "running" =>
          /\ req.attempts = req.retries
          /\ Len(req.sleeps) = req.retries
          /\ req.retries < req.max_retries
    /\ (req.status = "raised" /\ wrapper_catches(req.exc)) =>
          /\ req.attempts = req.max_retries
          /\ Len(req.sleeps) = req.max_retries - 1
    /\ req.status = "returned" =>
          /\ req.result = Response(req.call)
          /\ req.attempts = Len(req.sleeps) + 1
          /\ req.attempts <= req.max_retries
          /\ ~ENABLED NextRetry

\* C10 witness: three attempts of a call with delay 2 and backoff 2 failed,
\* the wrapper slept 2 and 4 between them and re-raised the timeout.
C10_Witness ==
    /\ req.status = "raised" /\ req.exc = "ReadTimeout"
    /\ req.max_retries = 3 /\ req.attempts = 3
    /\ req.sleeps = <<2, 4>>

---------------------------------------------------------------------------
(* Properties of the paginated fetcher (SpecPaginate) *)

IsPrefix(a, b) == Len(a) <= Len(b) /\ \A i \in 1..Len(a) : a[i] = b[i]

\* the loop of get_already_saved_episode_uris over the generator ended
LookupEnded == pc = "shows" /\ gens = <<>>

\* C8: when the request of a following page fails fewer than max_retries
\* times with errors the wrapper catches and then succeeds, the generator
\* yields the items of that page and of the pages after it after the items
\* of the earlier pages, in page order, each item once, and the loop over
\* it ends without an exception.  (Fewer than SAFE_MAX_RETRIES attempts
\* failed in all: faults_left > 0.)
C8_RetriedPageIsYielded ==
    /\ gens # <<>> => IsPrefix(Head(gens).yielded, Listing("saved"))
    /\ (LookupEnded /\ faults_left > 0 /\ last_gen.broke # "Exception") =>
          /\ last_gen.broke = "no"
          /\ last_gen.yielded = Listing("saved")

\* C8 witness: a library of three pages, a page request served at its third
\* attempt, and the whole listing yielded.
C8_Witness ==
    /\ LookupEnded
    /\ last_gen.recovered = 2
    /\ last_gen.pages = 3
    /\ last_gen.yielded = Listing("saved")

\* C9: when the request of a following page fails on all its attempts, the
\* sequence ends: the items yielded are exactly the items of the pages
\* fetched before (a proper prefix of the listing), the consumer has seen
\* exactly those, and its loop ends without an exception.
C9_ExhaustedPageEndsSequence ==
    /\ (gens # <<>> /\ Head(gens).broke # "no") => Poll(Head(gens)) = "end"
    /\ (LookupEnded /\ last_gen.broke # "no") =>
          /\ last_gen.yielded =
                SubSeq(Listing("saved"), 1, last_gen.pages * DEFAULT_LIMIT)
          /\ Len(last_gen.yielded) < Len(saved)
          /\ already_saved_uris = {saved[i] : i \in 1..Len(last_gen.yielded)}
          /\ wrapper_catches(last_gen.broke) => faults_left = 0

\* C9 witness: the request of the third page failed three times; the four
\* items of the first two pages were yielded and the loop ended.
C9_Witness ==
    /\ LookupEnded
    /\ last_gen.broke = "ConnectionError"
    /\ last_gen.pages = 2
    /\ Len(last_gen.yielded) = 4
    /\ Len(saved) = 5

---------------------------------------------------------------------------
(* Properties of a run of main (Spec) and of consecutive runs (SpecRuns) *)

\* the episode of this URI is fully played or paywall content
Excluded(u) == u \in played \/ Metadata[u].is_paywall_content

\* C2: in every run and under every pattern of remote failures, no episode
\* that is fully played and no episode flagged as paywall content is
\* returned by _find_oldest_unfinished_episode_in_show, held in the list of
\* find_oldest_unfinished_episode_per_podcast, or sent in an add request.
C2_NeverPlayedNorPaywalled ==
    /\ oldest_episode # PyNone => ~Excluded(oldest_episode.uri)
    /\ \A i \in 1..Len(valid_episodes) : ~Excluded(valid_episodes[i].uri)
    /\ \A i \in 1..Len(oldest_episodes) : ~Excluded(oldest_episodes[i].uri)
    /\ \A i \in 1..Len(add_log) : ~Excluded(add_log[i])

\* C2 witness: a run with a failed request ended having sent e1, the newest
\* episode of its show, because the older ones are played (e2) or paywall
\* content (e3).
C2_Witness ==
    /\ pc = "done"
    /\ faults_left < MaxFailures
    /\ "e2" \in played
    /\ InSeq(add_log, "e1")

\* from the return of get_already_saved_episode_uris to the first add request
\* the library is the one the run looked up
AfterLookup ==
    \/ pc \in {"shows", "shows_first", "shows_loop", "eps_first", "eps_loop"}
    \/ pc = "add_loop" /\ add_log = <<>>

\* C3: no episode that is in the saved library when the run looks it up is
\* selected for addition, whatever requests fail, and no URI is sent in more
\* than one add request of a run.
C3_NoSavedNorDuplicateAdd ==
    /\ AfterLookup => \A i \in 1..Len(oldest_episodes) :
                          oldest_episodes[i].uri \notin Range(saved)
    /\ \A i, j \in 1..Len(add_log) : add_log[i] = add_log[j] => i = j

\* C4: when no remote call fails, no fully played episode remains in the
\* saved library when clean_finished_episodes returns.
C4_NoPlayedEpisodeRemains ==
    (pc = "save" /\ faults_left = MaxFailures) =>
        \A u \in Range(saved) : u \notin played

\* C5: the list of find_oldest_unfinished_episode_per_podcast holds at most
\* one episode per show id.
C5_OneEpisodePerShow ==
    \A i, j \in 1..Len(oldest_episodes) :
        oldest_episodes[i].show_id = oldest_episodes[j].show_id => i = j

\* the saved episodes of a show that are not fully played
Unfinished(s) == {u \in Range(saved) : ShowOf[u] = s /\ u \notin played}

\* C6: after any number of consecutive failure-free runs from a library
\* without unfinished episodes, the library holds at most one unfinished
\* episode of each show, and one of each followed show that has an episode
\* neither played nor paywall content.
C6_OneUnfinishedPerShow ==
    pc = "done" =>
        \A s \in Shows :
            /\ Cardinality(Unfinished(s)) <= 1
            /\ (InSeq(followed, s) /\ \E u \in Range(UrisOfShow(s)) : ~Excluded(u))
                   => Cardinality(Unfinished(s)) = 1

---------------------------------------------------------------------------
(* Error handling of the retry wrapper (SpecRetry) *)

\* the errors that are neither a timeout, nor a connection error, nor a
\* rejection of the rate limiter
NonTransient == Errors \ {"ReadTimeout", "ConnectionError", "SpotifyException429"}

\* C11: an attempt that raises a non-transient error ends the call: the
\* error is raised to the caller at once, without another attempt and
\* without a backoff sleep.
C11_NonTransientNotRetried ==
    [][\A e \in NonTransient :
          (/\ req.status = "running"
           /\ faults_left' = faults_left - 1
           /\ req' = wrapper_except(req, e))
          => (/\ req'.status = "raised"
              /\ req'.exc = e
              /\ req'.sleeps = req.sleeps)]_vars

---------------------------------------------------------------------------
(* find_oldest_unfinished_episode_per_podcast after the lookup of an empty *)
(* library, over followed-show listings that may hold show objects without *)
(* an id; the environment may fail as many attempts as one request makes   *)

MalformedShow == "s?"

InitShows ==
    /\ pc = "shows"
    /\ run = 1
    /\ played \in SUBSET Range(AllUris)
    /\ saved = <<>>
    /\ followed \in Listings(Shows \cup {MalformedShow}, MaxFollowed + 1)
    /\ faults_left = SAFE_MAX_RETRIES
    /\ req = IdleFrame
    /\ gens = <<>>
    /\ last_gen = NoGen
    /\ already_saved_uris = {}
    /\ oldest_episodes = <<>>
    /\ valid_episodes = <<>>
    /\ oldest_episode = PyNone
    /\ show_id = ""
    /\ counts = NoCounts
    /\ add_log = <<>>
    /\ delete_log = <<>>
    /\ request_count = 0
    /\ results = PyNone
    /\ results_i = 0

NextShows ==
    \/ ShowsCall \/ ShowsFirstPage \/ ShowsItem \/ ShowsEnd
    \/ EpisodesFirstPage \/ EpisodesItem \/ EpisodesEnd
    \/ PaginateFetch \/ PaginateResume
    \/ SafeRequestReturns \/ SafeRequestRaises

SpecShows == InitShows /\ [][NextShows]_vars

\* C12: a failure while one followed show is processed affects only that
\* show: the list of selected episodes never loses an entry while the shows
\* are processed, and the loop over the shows is left only when the listing
\* of the shows has ended.
C12_ShowFailureIsLocal ==
    [][(pc \in {"shows_loop", "eps_first", "eps_loop"}) =>
          (IsPrefix(oldest_episodes, oldest_episodes') /\
           ((pc = "shows_loop" /\ pc' \notin {"shows_loop", "eps_first"})
                 => Poll(Head(gens)) = "end"))]_vars

---------------------------------------------------------------------------
(* clean_finished_episodes over libraries whose listing may hold an        *)
(* episode object without a uri; the environment may fail as many attempts *)
(* as one request makes                                                    *)

MalformedEpisode == "e?"

InitClean ==
    /\ pc = "main"
    /\ run = 1
    /\ played \in SUBSET Range(AllUris)
    /\ saved \in SubSeqs(<<"e1", MalformedEpisode, "e2", "e3", "e4">>)
    /\ followed = <<>>
    /\ faults_left = SAFE_MAX_RETRIES
    /\ Fresh

NextClean ==
    \/ Main \/ CleanFirstPage \/ CleanItem \/ CleanDeleted \/ CleanEnd
    \/ PaginateFetch \/ PaginateResume
    \/ SafeRequestReturns \/ SafeRequestRaises

SpecClean == InitClean /\ [][NextClean]_vars

\* 1 for a request that returned, 0 for one that raised
Succeeded == IF req.status = "returned" THEN 1 ELSE 0

\* C13: the failure of one deletion or addition, or a malformed item, does
\* not abort the loop of clean_finished_episodes or of
\* save_oldest_episodes_to_library: the loop over the saved episodes is left
\* only when the listing has ended and the add loop only when every selected
\* episode has been sent, and each count of successes grows exactly with the
\* requests that succeed.
C13_ItemFailureDoesNotAbort ==
    [][/\ (pc = "clean_loop" /\ pc' = "save") => Poll(Head(gens)) = "end"
       /\ (pc = "clean_delete" /\ pc' = "clean_loop")
              => counts'.removed_count = counts.removed_count + Succeeded
       /\ (pc = "add_loop" /\ pc' = "done") => Len(add_log) = Len(oldest_episodes)
       /\ (pc = "add_wait" /\ pc' = "add_loop")
              => counts'.success_count = counts.success_count + Succeeded]_vars

---------------------------------------------------------------------------
(* get_already_saved_episode_uris, called by                               *)
(* find_oldest_unfinished_episode_per_podcast after the cleaning, over     *)
(* libraries whose listing may hold an episode object without a uri; the   *)
(* environment may fail as many attempts as one request makes              *)

InitLookup ==
    /\ pc = "save"
    /\ run = 1
    /\ played = {}
    /\ saved \in SubSeqs(<<"e1", MalformedEpisode, "e2", "e3", "e4">>)
    /\ followed = <<>>
    /\ faults_left = SAFE_MAX_RETRIES
    /\ Fresh

NextLookup ==
    \/ Save \/ LookupFirstPage \/ LookupItem \/ LookupEnd
    \/ PaginateFetch \/ PaginateResume
    \/ SafeRequestReturns \/ SafeRequestRaises

SpecLookup == InitLookup /\ [][NextLookup]_vars

\* the URIs of the first n items of the saved-episode listing
UrisOfFirst(n) ==
    {saved[i] : i \in {k \in 1..Min(n, Len(saved)) : saved[k] \in DOMAIN Metadata}}

\* get_already_saved_episode_uris returned to its caller (last_gen is its
\* generator, NoGen when the first request raised)
LookupReturned == pc = "shows" /\ req = IdleFrame /\ gens = <<>>

\* C14 (as the code has it): get_already_saved_episode_uris returns to its
\* caller whatever fails; it returns the URIs of the pages it obtained: the
\* empty set when the first request fails, the URIs of the pages before the
\* failed one when a following page fails, and the URIs of all saved
\* episodes when nothing fails.
C14_LookupReturnsFetchedUris ==
    /\ pc \in {"save", "lookup_first", "lookup_loop", "shows"}
    /\ pc = "shows" => LookupReturned
    /\ LookupReturned =>
          /\ already_saved_uris = UrisOfFirst(last_gen.pages * DEFAULT_LIMIT)
          /\ last_gen.pages = 0 => already_saved_uris = {}
          /\ (last_gen.pages > 0 /\ last_gen.broke = "no")
                 => already_saved_uris = UrisOfFirst(Len(saved))

\* C14 witness: the request of the second page failed and the lookup
\* returned the URIs of the first page.
C14_Witness ==
    /\ LookupReturned
    /\ last_gen.broke = "ReadTimeout"
    /\ already_saved_uris = {"e1", "e2"}
    /\ saved = <<"e1", "e2", "e3">>

\* C14 as stated: the lookup returns the empty set whenever a request of it
\* fails, and all saved URIs when nothing fails.
C14_EmptyOnAnyFailure ==
    LookupReturned =>
        IF last_gen.pages = 0 \/ last_gen.broke # "no"
        THEN already_saved_uris = {}
        ELSE already_saved_uris = UrisOfFirst(Len(saved))

---------------------------------------------------------------------------
(* Malformed episode records in the selection (SpecSort) *)

\* an episode record with its uri, id and release date, the release date a
\* string of numerals, and no null resume point
WellFormedEpisode(ep) ==
    /\ ep # PyNone
    /\ {"uri", "id", "release_date"} \subseteq DOMAIN ep
    /\ ep.release_date.py = "str"
    /\ \A i \in 1..Len(ep.release_date.parts) : ep.release_date.parts[i] \in DOMAIN IntOf
    /\ "resume_point" \in DOMAIN ep => ep.resume_point.py # "None"

\* C15: an episode record with a missing or malformed field is only left
\* out, it ends the processing of its show with no error: when the listing
\* holds well-formed eligible episodes, the function returns the oldest of
\* them.
C15_MalformedRecordIsExcluded ==
    Returned =>
        LET y == last_gen.yielded
            W == {i \in 1..Len(y) : WellFormedEpisode(y[i]) /\ Eligible(y[i])}
        IN  W # {} =>
                \E i \in W :
                    /\ oldest_episode = EpisodeData(y[i], show_id)
                    /\ \A j \in W : LexLeq(KeyOf(y[i]), KeyOf(y[j]))

---------------------------------------------------------------------------
(* A run of main that goes on (each attempt returns or raises within the   *)
(* request timeout), with no limit on the failures that binds: the budget  *)
(* exceeds three failed attempts of every request a run can make           *)

MaxRunFailures == 34

InitTerm ==
    /\ pc = "main"
    /\ run = 1
    /\ saved \in SubSeqs(<<"e1", "e2", "e3">>)
    /\ played \in SUBSET {"e1", "e3"}
    /\ followed \in Listings({"s1"}, 1)
    /\ faults_left = MaxRunFailures
    /\ Fresh

SpecTerm == InitTerm /\ [][Next]_vars /\ WF_vars(Next)

\* C16: under every pattern of failures a run of main terminates, no
\* logical request is attempted more than SAFE_MAX_RETRIES times (the
\* failures are never limited by the budget), and no operation is entered
\* again: the cleaning is entered from main only, the saving from the
\* cleaning only, the lookup from the saving only.
C16_RunTerminates ==
    /\ [](req.attempts <= SAFE_MAX_RETRIES /\ faults_left > 0)
    /\ [][pc' # pc =>
            /\ pc' # "main"
            /\ pc' = "clean_first" => pc = "main"
            /\ pc' = "save" => pc \in {"clean_first", "clean_loop"}
            /\ pc' = "lookup_first" => pc = "save"]_vars
    /\ <>(pc = "done")

\* C16 witness: a run ended in which the add request failed on all its
\* attempts after a delete request had been sent.
C16_Witness ==
    /\ pc = "done"
    /\ add_log # <<>> /\ counts.success_count = 0
    /\ delete_log # <<>>
    /\ MaxRunFailures - faults_left >= 2 * SAFE_MAX_RETRIES

AllRejected == request_count > 0 /\ request_count = MaxRunFailures - faults_left

\* C18: when the remote rejects the credentials, the run aborts: main does
\* not reach its end, and no delete or add request is sent.
C18_RejectedCredentialsAbort ==
    AllRejected => (pc # "done" /\ delete_log = <<>> /\ add_log = <<>>)

---------------------------------------------------------------------------
(* The delete requests of clean_finished_episodes (SpecClean) *)

DeleteInFlight == req.call.func = "current_user_saved_episodes_delete"

\* C19: a delete request is sent only for the URI of a saved episode whose
\* listing item reports fully_played = true, one URI in a request; no
\* episode that is not fully played is ever removed from the library.
C19_OnlyPlayedEpisodesDeleted ==
    /\ [](/\ \A i \in 1..Len(delete_log) : delete_log[i] \in played
          /\ DeleteInFlight =>
                /\ req.call.uri = delete_log[Len(delete_log)]
                /\ req.status = "running" => InSeq(saved, req.call.uri))
    /\ [][\A u \in Range(saved) \ Range(saved') :
              /\ u \in played
              /\ DeleteInFlight /\ u = req.call.uri
              /\ Len(saved') = Len(saved) - 1]_vars

\* C19 witness: the cleaning returned after a failed attempt, having removed
\* a fully played episode and kept an unfinished one.
C19_Witness ==
    /\ pc = "save"
    /\ faults_left < SAFE_MAX_RETRIES
    /\ counts.removed_count >= 1
    /\ \E u \in Range(saved) : u \in DOMAIN Metadata /\ u \notin played

---------------------------------------------------------------------------
(* eliminar_todos_los_podcasts.py: the script that empties the library,    *)
(* with no remote call failing (the script handles no exception)           *)

\* results = sp.current_user_saved_episodes(limit=50)
ElimFirstPage ==
    /\ pc = "elim"
    /\ results' = Page("saved", 0, DEFAULT_LIMIT)
    /\ results_i' = 0
    /\ pc' = "elim_loop"
    /\ UNCHANGED <<run, remote, req, gens, last_gen, locals, logs, request_count,
                   faults_left>>

\* for item in results['items']:
\*     sp.current_user_saved_episodes_delete([item['episode']['id']])
ElimDelete ==
    /\ pc = "elim_loop" /\ results_i < Len(results.items)
    /\ LET item == results.items[results_i + 1] IN
          /\ saved' = LibraryDelete(saved, item.episode.id)
          /\ delete_log' = Append(delete_log, item.episode.id)
    /\ results_i' = results_i + 1
    /\ UNCHANGED <<pc, run, played, followed, req, gens, last_gen, locals, add_log,
                   request_count, faults_left, results>>

\* results = sp.current_user_saved_episodes(limit=50, offset=len(results['items']))
ElimNextPage ==
    /\ pc = "elim_loop" /\ results.items # <<>> /\ results_i = Len(results.items)
    /\ results' = Page("saved", Len(results.items), DEFAULT_LIMIT)
    /\ results_i' = 0
    /\ UNCHANGED <<pc, run, remote, req, gens, last_gen, locals, logs, request_count,
                   faults_left>>

\* while results['items']: false, the function returns
ElimEnd ==
    /\ pc = "elim_loop" /\ results.items = <<>>
    /\ pc' = "elim_done"
    /\ UNCHANGED <<run, script, remote, req, gens, last_gen, locals, logs,
                   request_count, faults_left>>

InitElim ==
    /\ pc = "elim"
    /\ run = 1
    /\ played \in SUBSET {"e1", "e5"}
    /\ saved \in SubSeqs(AllUris \o <<"e5">>)
    /\ followed = <<>>
    /\ faults_left = 0
    /\ Fresh

NextElim == ElimFirstPage \/ ElimDelete \/ ElimNextPage \/ ElimEnd

SpecElim == InitElim /\ [][NextElim]_vars

\* C20: when no remote call fails, the saved library is empty when
\* eliminar_todos_los_podcasts returns, whatever its size was.
C20_LibraryIsEmptied ==
    pc = "elim_done" => saved = <<>>

====
